---- MODULE Spec2Model ----
(***************************************************************************)
(* Model of the metadynamics bias-potential engine, IntegratorMetaDynamics *)
(* (cppmodule/IntegratorMetaDynamics.cc).                                  *)
(*                                                                         *)
(* Scalars.  Collective-variable values, grid bounds and widths are        *)
(* integers.  Potentials, hill heights, interpolation weights and bias     *)
(* factors are fixed-point numbers: the integer n stands for n / Unit.     *)
(* Every product of two fixed-point numbers is divided by Unit and every   *)
(* quotient is truncated, at the place where the code multiplies or        *)
(* divides.                                                                *)
(***************************************************************************)
EXTENDS Integers, Sequences, FiniteSets, TLC

\* ------------------------------------------------------------------ bounds

\* The cap on m_num_update_steps and on the driver's timestep, and the cap
\* for the runs with grid files.
MaxSteps == 3
MaxGridSteps == 2
\* The largest number of axes and the longest axis of an index called on
\* its own.
MaxDimension == 3
MaxLength == 3

\* ------------------------------------------------------------ fixed point

\* One, in fixed point.
Unit == 16 * 16

\* exp(-1/2) in fixed point (0.6065 * 256).
ExpHalf == (155 * Unit) \div 256

Abs(a) == IF a < 0 THEN -a ELSE a

\* Division of Scalars, truncated toward zero.
Quot(a, b) == IF (a < 0) = (b < 0) THEN Abs(a) \div Abs(b) ELSE -(Abs(a) \div Abs(b))

\* The product of two fixed-point numbers.
Mul(a, b) == Quot(a * b, Unit)

RECURSIVE ExpHalves(_)
\* exp(-k/2) in fixed point, k >= 0.
ExpHalves(k) == IF k = 0 THEN Unit ELSE Mul(ExpHalves(k - 1), ExpHalf)

\* exp(-n) for a fixed-point n >= 0: the table of the half steps, read
\* with linear interpolation between two entries.
ExpMinus(n) ==
    ExpHalves((2 * n) \div Unit)
      - Quot((ExpHalves((2 * n) \div Unit) - ExpHalves((2 * n) \div Unit + 1))
               * ((2 * n) % Unit),
             Unit)

\* exp(a) for a fixed-point a.
Exp(a) == IF a <= 0 THEN ExpMinus(-a) ELSE Quot(Unit * Unit, ExpMinus(a))

\* ------------------------------------------------------------- parameters

\* Constructor arguments W and T_shift (both 1.0), fixed point.
m_W == Unit
m_T_shift == Unit

\* The values of the constructor's stride argument.
Strides == {1, 2}

\* The name of the hill log and of the grid file.
LogName == "hills.log"
GridName == "grid.dat"

\* A hill log that is not on disk, and one an earlier run has left there.
\* A row is a header row, a hill (timestep, height W, and per CV its value
\* and sigma) or a row of an earlier run.
LogRow(kind, t, W, cols) == [kind |-> kind, timestep |-> t, W |-> W, cols |-> cols]
NoLog == [exists |-> FALSE, rows |-> <<>>]
EarlierLog == [exists |-> TRUE, rows |-> <<LogRow("earlier run", 0, 0, <<>>)>>]

\* A grid file that is not on disk.
NoGridFile == [exists |-> FALSE, header |-> <<>>, data |-> <<>>, nl |-> FALSE]

\* The collective variables of the simulation, in the order in which they
\* are registered.
CVNames == <<"cv_a", "cv_b">>

\* The grid of a binding: its bounds, number of points and sigma.
Binding(min, max, num_points, sigma) ==
    [m_cv_min |-> min, m_cv_max |-> max, m_num_points |-> num_points, m_sigma |-> sigma]

\* The grids the CVs are registered with: the first with [0,2] and 3 points
\* (delta 1), with [0,4] and 3 points (delta 2), or with min > max; the
\* others with [0,4] and 3 points.
Bindings(registered) ==
    IF registered = 0
    THEN { Binding(0, 2, 3, 1), Binding(0, 4, 3, 2), Binding(2, 0, 3, 1) }
    ELSE { Binding(0, 4, 3, 2) }

\* A CollectiveVariableItem: the CV and its grid.
CollectiveVariableItem(cv, b) ==
    [m_cv |-> cv, m_cv_min |-> b.m_cv_min, m_cv_max |-> b.m_cv_max,
     m_num_points |-> b.m_num_points, m_sigma |-> b.m_sigma]

\* The values one registered collective variable reports (getCurrentValue):
\* in grid mode below the grids, on and between their points, at their
\* upper bounds and above; in history mode fewer.
GridCVValues == {-1, 1, 2, 4}
HistoryCVValues == {1, 2}

\* What several registered collective variables report: the first one the
\* first value of a pair, the others the second.
GridCVPairs == {<<1, 2>>, <<2, 2>>, <<1, 5>>}
HistoryCVPairs == {<<1, 2>>, <<2, 2>>}

\* The value vectors n collective variables report on one advance.
CurrentValues(n, use_grid) ==
    IF n = 1
    THEN { <<x>> : x \in IF use_grid THEN GridCVValues ELSE HistoryCVValues }
    ELSE { [i \in 1 .. n |-> IF i = 1 THEN p[1] ELSE p[2]] :
             p \in IF use_grid THEN GridCVPairs ELSE HistoryCVPairs }

\* ---------------------------------------------------------- sequence tools

RECURSIVE SumSeq(_)
SumSeq(s) == IF s = <<>> THEN 0 ELSE Head(s) + SumSeq(Tail(s))

RECURSIVE ProdSeq(_)
ProdSeq(s) == IF s = <<>> THEN 1 ELSE Head(s) * ProdSeq(Tail(s))

\* ----------------------------------------------------------------- IndexGrid

\* getNumElements(): the product of the lengths.
NumElements(lengths) == ProdSeq(lengths)

\* A getIndex that counts the first axis fastest.
GetIndexColumnMajor(lengths, coords) ==
    SumSeq([i \in 1 .. Len(lengths) |->
              coords[i] * ProdSeq(SubSeq(lengths, 1, i - 1))])

\* getIndex(coords): row-major, offset = SUM coords[i] * PROD_{j>i} L_j.
GetIndex(lengths, coords) ==
    SumSeq([i \in 1 .. Len(lengths) |->
              coords[i] * ProdSeq(SubSeq(lengths, i + 1, Len(lengths)))])

\* getCoordinates(offset): the inverse of getIndex.
GetCoordinates(lengths, offset) ==
    [i \in 1 .. Len(lengths) |->
       (offset \div ProdSeq(SubSeq(lengths, i + 1, Len(lengths)))) % lengths[i]]

\* ------------------------------------------------------------------- state

VARIABLES
    m_variables,            \* the registry: a sequence of CollectiveVariableItem
    m_stride,               \* steps between two depositions
    m_num_update_steps,     \* the step counter
    m_curr_bias_potential,  \* the bias potential of the last advance
    m_is_initialized,       \* the one-shot flag
    m_filename,             \* the hill log's name, "" for none
    m_overwrite,            \* overwrite an existing hill log
    m_is_appending,         \* the hill log was opened for appending
    m_use_grid,             \* grid mode
    m_add_hills,            \* deposition enabled
    m_restart_filename,     \* the grid file to restart from, "" for none
    m_cv_values,            \* history mode: per CV, the values sampled
    m_bias_potential,       \* history mode: the potential at each deposition
    m_grid,                 \* grid mode: the flattened grid
    m_grid_index,           \* grid mode: the lengths of the axes
    m_file,                 \* the hill log's stream: "closed", "open", "bad", "stuck"
    m_prepared,             \* IntegratorTwoStep: prepRun has completed
    cv_bias,                \* per registered CV, its m_bias
    disk_log,               \* the hill log on disk
    disk_grid,              \* the grid file on disk
    timestep,               \* the simulation's current timestep
    last,                   \* the last call but setAddHills: its name and error
    adv,                    \* what the last updateBiasPotential call did
    events,                 \* the steps of the last update call, in order
    evaluated,              \* the updateBiasPotential calls made so far
    headers_written,        \* the writeFileHeader calls made so far
    deposits,               \* the hills deposited so far: where, and the potential there
    index_call              \* the last call of m_grid_index: its arguments and result

vars ==
    << m_variables, m_stride, m_num_update_steps, m_curr_bias_potential,
       m_is_initialized, m_filename, m_overwrite, m_is_appending, m_use_grid,
       m_add_hills, m_restart_filename, m_cv_values, m_bias_potential, m_grid,
       m_grid_index, m_file, m_prepared, cv_bias, disk_log, disk_grid,
       timestep, last, adv, events, evaluated, headers_written, deposits,
       index_call >>

\* The fields of the engine: everything but the driver's timestep and the
\* records of what the last call did.
engine ==
    << m_variables, m_stride, m_num_update_steps, m_curr_bias_potential,
       m_is_initialized, m_filename, m_overwrite, m_is_appending, m_use_grid,
       m_add_hills, m_restart_filename, m_cv_values, m_bias_potential, m_grid,
       m_grid_index, m_file, m_prepared, cv_bias, disk_log, disk_grid >>

\* No error, a configuration error (setGrid, dumpGrid, readGrid), a fatal
\* error (files).
NoError == "none"
ConfigError == "configuration error"
FatalError == "fatal error"

\* The record of a call.
Call(op, err) == [op |-> op, err |-> err]

\* What an updateBiasPotential call did: whether it was called and whether
\* it went past the early return; the timestep it was given; current_val;
\* whether interpolateBiasPotential(current_val) found its sub-block; whether
\* a hill was deposited and a hill row written; the setBiasFactor calls, in
\* order, each a pair <<the CV, bias>>.
Advance(called, ran, t, current_val, found, deposited, logged, calls) ==
    [called |-> called, ran |-> ran, timestep |-> t, current_val |-> current_val,
     found |-> found, deposited |-> deposited, logged |-> logged, calls |-> calls]

\* A hill deposited: the timestep of the advance, the point current_val
\* and the bias potential evaluated there on that advance.
Deposit(t, current_val, potential) ==
    [timestep |-> t, at |-> current_val, potential |-> potential]

\* An updateBiasPotential call: the call that made it and its timestep.
Evaluation(by, t) == [by |-> by, timestep |-> t]

\* No updateBiasPotential call was made by the last call.
NoAdvance == Advance(FALSE, FALSE, 0, <<>>, FALSE, FALSE, FALSE, <<>>)

\* A call of m_grid_index: the lengths of the index, getIndex or
\* getCoordinates, its argument and what it returned.
IndexCall(lengths, op, arg, result) ==
    [lengths |-> lengths, op |-> op, arg |-> arg, result |-> result]

\* m_grid_index has not been called on its own.
NoIndexCall == IndexCall(<<>>, "none", 0, 0)

\* The constructor: the state after construction with the given overwrite,
\* for every choice of stride, add_hills, filename and use_grid, on a disk
\* whose hill log is `log`.
Constructed(overwrite, log) ==
    /\ m_variables = <<>>
    /\ m_stride \in Strides
    /\ m_num_update_steps = 0
    /\ m_curr_bias_potential = 0
    /\ m_is_initialized = FALSE
    /\ m_filename \in {"", LogName}
    /\ m_overwrite = overwrite
    /\ m_is_appending = FALSE
    /\ m_use_grid \in BOOLEAN
    /\ m_add_hills \in BOOLEAN
    /\ m_restart_filename = ""
    /\ m_cv_values = <<>>
    /\ m_bias_potential = <<>>
    /\ m_grid = <<>>
    /\ m_grid_index = <<>>
    /\ m_file = "closed"
    /\ m_prepared = FALSE
    /\ cv_bias = <<>>
    /\ disk_log = log
    /\ disk_grid = NoGridFile
    /\ timestep = 0
    /\ last = Call("construct", NoError)
    /\ adv = NoAdvance
    /\ events = <<>>
    /\ evaluated = <<>>
    /\ headers_written = 0
    /\ deposits = <<>>

\* The engine constructed without overwrite, on a disk that holds no hill
\* log.
Init == Constructed(FALSE, NoLog) /\ index_call = NoIndexCall

\* ------------------------------------------------- interpolateBiasPotential

\* The grid spacing along the axis of binding v.
Delta(v) == Quot(v.m_cv_max - v.m_cv_min, v.m_num_points - 1)

\* val lies in the block [lower_bound, upper_bound).
InBlock(val, lower_bound, upper_bound) == (val >= lower_bound) /\ (val < upper_bound)

RECURSIVE FindBlock(_, _, _, _)
\* The search for the block of axis v that holds val, from block h on,
\* whose lower bound is upper_bound.
FindBlock(v, val, h, upper_bound) ==
    IF ~(h < v.m_num_points - 1)
    THEN [found |-> FALSE, h |-> h, lower_bound |-> upper_bound, upper_bound |-> upper_bound]
    ELSE IF InBlock(val, upper_bound, upper_bound + Delta(v))
         THEN [found |-> TRUE, h |-> h, lower_bound |-> upper_bound,
               upper_bound |-> upper_bound + Delta(v)]
         ELSE FindBlock(v, val, h + 1, upper_bound + Delta(v))

\* An evaluation that returns the hill height out of bounds.
OutOfBoundsValueHill == Unit

\* The value returned for a point out of bounds.
OutOfBoundsValue == 0

\* bits & (1 << i), i counted from 0.
BitSet(bits, i) == (bits \div (2 ^ i)) % 2 = 1

\* An interpolation with the weights of the two corners of an axis swapped.
CornerFactorSwapped(bit, rel_delta) == IF bit THEN rel_delta ELSE Unit - rel_delta

\* The factor axis i contributes to a corner's weight: 1 - rel_delta for
\* the lower corner (bit set), rel_delta for the upper one.
CornerFactor(bit, rel_delta) == IF bit THEN Unit - rel_delta ELSE rel_delta

\* The index of the corner along axis i.
CornerIndex(bit, lower_idx) == IF bit THEN lower_idx ELSE lower_idx + 1

\* interpolateBiasPotential(val): found tells whether every axis found its
\* block, value is the value returned.
InterpolateBiasPotential(variables, lengths, grid, val) ==
    LET D == Len(lengths)
        block == [i \in 1 .. D |-> FindBlock(variables[i], val[i], 0, variables[i].m_cv_min)]
        rel_delta == [i \in 1 .. D |->
            Quot((val[i] - block[i].lower_bound) * Unit,
                 block[i].upper_bound - block[i].lower_bound)]
        Term(bits) ==
            LET coords == [i \in 1 .. D |-> CornerIndex(BitSet(bits, i - 1), block[i].h)]
                weight[i \in 0 .. D] ==
                    IF i = 0 THEN Unit
                    ELSE Mul(weight[i - 1], CornerFactor(BitSet(bits, i - 1), rel_delta[i]))
            IN  Mul(weight[D], grid[GetIndex(lengths, coords) + 1])
    IN  IF \E i \in 1 .. D : ~block[i].found
        THEN [found |-> FALSE, value |-> OutOfBoundsValue]
        ELSE [found |-> TRUE,
              value |-> SumSeq([b \in 1 .. 2 ^ D |-> Term(b - 1)])]

\* ------------------------------------------------------ updateBiasPotential

\* An updateBiasPotential without its early return.
HasNoVariablesUnchecked(variables) == Len(variables) < 0

\* "exit early if there are no collective variables".
HasNoVariables(variables) == Len(variables) = 0

\* A deposition condition that leaves out m_add_hills.
DepositDueOnStride(add_hills, num_update_steps, stride) == num_update_steps % stride = 0

\* This advance deposits a hill.
DepositDue(add_hills, num_update_steps, stride) ==
    add_hills /\ (num_update_steps % stride = 0)

\* An updateBiasPotential that appends to the histories in both modes.
AppendsToHistoryAlways(use_grid) == TRUE

\* History mode appends every sampled value to the history.
AppendsToHistory(use_grid) == ~use_grid

\* d*d/2.0/sigma/sigma, fixed point.
GaussExponent(d, sigma) == Quot(Quot(Quot(d * d * Unit, 2), sigma), sigma)

\* A scaling factor that does not decay with the potential.
ScalConstant(V) == Unit

\* The well-tempered scaling factor exp(-V/T_shift).
Scal(V) == Exp(Quot((-V) * Unit, m_T_shift))

\* The Gaussian of a hill at current_val, seen from the point `at`.
Gauss(variables, at, current_val) ==
    Exp(-SumSeq([i \in 1 .. Len(variables) |->
                   GaussExponent(at[i] - current_val[i], variables[i].m_sigma)]))

\* The grid after a hill was added at current_val, V the potential there.
AddGaussian(variables, lengths, grid, current_val, V) ==
    [g \in 1 .. NumElements(lengths) |->
       LET coords == GetCoordinates(lengths, g - 1)
           at == [i \in 1 .. Len(variables) |->
                    variables[i].m_cv_min + coords[i] * Delta(variables[i])]
       IN  grid[g] + Mul(Mul(m_W, Scal(V)), Gauss(variables, at, current_val))]

\* val with its component i moved by d.
Moved(val, i, d) == [val EXCEPT ![i] = @ + d]

\* A derivative that takes the central difference at every point, also
\* next to the bounds of the axis.
GridDerivativeCentralOnly(variables, lengths, grid, current_val, i) ==
    Quot(InterpolateBiasPotential(variables, lengths, grid,
                                  Moved(current_val, i, Delta(variables[i]))).value
           - InterpolateBiasPotential(variables, lengths, grid,
                                      Moved(current_val, i, -Delta(variables[i]))).value,
         2 * Delta(variables[i]))

\* Grid mode: the partial derivative along axis i, a forward, a backward or
\* a central difference.
GridDerivative(variables, lengths, grid, current_val, i) ==
    LET delta == Delta(variables[i])
        F(val) == InterpolateBiasPotential(variables, lengths, grid, val).value
    IN  IF current_val[i] - delta < variables[i].m_cv_min
        THEN Quot(F(Moved(current_val, i, delta)) - F(current_val), delta)
        ELSE IF current_val[i] + delta > variables[i].m_cv_max
             THEN Quot(F(current_val) - F(Moved(current_val, i, -delta)), delta)
             ELSE Quot(F(Moved(current_val, i, delta)) - F(Moved(current_val, i, -delta)),
                       2 * delta)

\* History mode: the Gaussian of deposition k (counted from 0), whose hill
\* is read at index k * stride of the histories.
HistoryGauss(variables, cv_values, stride, current_val, k) ==
    Exp(-SumSeq([i \in 1 .. Len(variables) |->
                   GaussExponent(current_val[i] - cv_values[i][k * stride + 1],
                                 variables[i].m_sigma)]))

\* History mode: the sum of all Gaussians deposited until now.
HistoryPotential(variables, cv_values, bias_potential, stride, current_val) ==
    SumSeq([k \in 1 .. Len(bias_potential) |->
              Mul(Mul(m_W, Scal(bias_potential[k])),
                  HistoryGauss(variables, cv_values, stride, current_val, k - 1))])

\* History mode: the partial derivative along axis i.
HistoryDerivative(variables, cv_values, bias_potential, stride, current_val, i) ==
    -SumSeq([k \in 1 .. Len(bias_potential) |->
               Mul(Quot(Quot(Mul(m_W, Scal(bias_potential[k])), variables[i].m_sigma),
                        variables[i].m_sigma)
                     * (current_val[i] - cv_values[i][(k - 1) * stride + 1]),
                   HistoryGauss(variables, cv_values, stride, current_val, k - 1))])

\* A hill row that carries the height W before scaling.
HillRowUnscaled(variables, t, potential, current_val) ==
    LogRow("hill", t, m_W,
           [i \in 1 .. Len(variables) |-> <<current_val[i], variables[i].m_sigma>>])

\* The hill row of the log.
HillRow(variables, t, potential, current_val) ==
    LogRow("hill", t, Mul(m_W, Scal(potential)),
           [i \in 1 .. Len(variables) |-> <<current_val[i], variables[i].m_sigma>>])

\* A test that writes a hill row on every advance of the stride.
WritesHillRowOnStride(is_initialized, add_hills, num_update_steps, stride) ==
    is_initialized /\ (num_update_steps % stride = 0)

\* The test before the hill row is written.
WritesHillRow(is_initialized, add_hills, num_update_steps, stride) ==
    is_initialized /\ (num_update_steps % stride = 0) /\ add_hills

\* m_file << row: a stream that is not open writes nothing.
WriteRow(file, log, row) ==
    IF file = "open" THEN [log EXCEPT !.rows = Append(@, row)] ELSE log

\* A step counter that is never incremented.
NextStepStays(num_update_steps) == num_update_steps

\* m_num_update_steps++.
NextStep(num_update_steps) == num_update_steps + 1

\* A hand-over loop that gives CV i the derivative of the axis counted
\* from the other end.
BiasFactorCallsReversed(variables, bias) ==
    [i \in 1 .. Len(variables) |-> <<variables[i].m_cv, bias[Len(variables) + 1 - i]>>]

\* The setBiasFactor calls of one advance: one per CV, in registry order.
BiasFactorCalls(variables, bias) ==
    [i \in 1 .. Len(variables) |-> <<variables[i].m_cv, bias[i]>>]

\* The fields updateBiasPotential reads and writes, of the current state.
Fields ==
    [is_initialized |-> m_is_initialized,
     cv_values |-> m_cv_values, num_update_steps |-> m_num_update_steps,
     bias_potential |-> m_bias_potential, grid |-> m_grid,
     grid_index |-> m_grid_index, file |-> m_file, log |-> disk_log]

\* updateBiasPotential(t) called in the state whose fields are e (prepRun
\* has changed them before it calls), the CVs reporting current_val.
UpdateBiasPotential(e, t, current_val) ==
    IF HasNoVariables(m_variables)
    THEN /\ m_cv_values' = e.cv_values
         /\ m_num_update_steps' = e.num_update_steps
         /\ m_bias_potential' = e.bias_potential
         /\ m_grid' = e.grid
         /\ disk_log' = e.log
         /\ adv' = Advance(TRUE, FALSE, t, <<>>, FALSE, FALSE, FALSE, <<>>)
         /\ UNCHANGED << m_curr_bias_potential, cv_bias, deposits >>
    ELSE
    \E cv_values \in
         { IF AppendsToHistory(m_use_grid)
           THEN [i \in 1 .. Len(m_variables) |-> Append(e.cv_values[i], current_val[i])]
           ELSE e.cv_values } :
    \E due \in { DepositDue(m_add_hills, e.num_update_steps, m_stride) } :
    \E interpolated \in
         { IF m_use_grid
           THEN InterpolateBiasPotential(m_variables, e.grid_index, e.grid, current_val)
           ELSE [found |-> FALSE, value |-> 0] } :
    \E potential \in
         { IF m_use_grid THEN interpolated.value
           ELSE HistoryPotential(m_variables, cv_values, e.bias_potential, m_stride,
                                 current_val) } :
    \E grid \in
         { IF m_use_grid /\ due
           THEN AddGaussian(m_variables, e.grid_index, e.grid, current_val, potential)
           ELSE e.grid } :
    \E bias \in
         { [i \in 1 .. Len(m_variables) |->
              IF m_use_grid
              THEN GridDerivative(m_variables, e.grid_index, grid, current_val, i)
              ELSE HistoryDerivative(m_variables, cv_values, e.bias_potential,
                                     m_stride, current_val, i)] } :
    \E writes \in
         { WritesHillRow(e.is_initialized, m_add_hills, e.num_update_steps, m_stride) } :
        /\ m_cv_values' = cv_values
        /\ m_curr_bias_potential' = potential
        /\ m_grid' = grid
        /\ disk_log' = IF writes
                       THEN WriteRow(e.file, e.log,
                                     HillRow(m_variables, t, potential, current_val))
                       ELSE e.log
        /\ m_bias_potential' = IF due /\ ~m_use_grid
                               THEN Append(e.bias_potential, potential)
                               ELSE e.bias_potential
        /\ cv_bias' = bias
        /\ m_num_update_steps' = NextStep(e.num_update_steps)
        /\ deposits' = IF due THEN Append(deposits, Deposit(t, current_val, potential))
                       ELSE deposits
        /\ adv' = Advance(TRUE, TRUE, t, current_val, interpolated.found, due,
                          writes /\ e.file = "open", BiasFactorCalls(m_variables, bias))

\* ------------------------------------------------------------ grid file text

\* A grid file: the lines of its header, then its data lines, each the text
\* of a grid value followed by the CV values of the grid point; `nl` tells
\* whether the last line ends with a newline.  The text of a Scalar counts
\* 1/TextUnit, with at most Precision significant digits.
Precision == 10
TextUnit == 10 ^ 8

RECURSIVE Digits(_)
\* The number of decimal digits of t.
Digits(t) == IF Abs(t) < 10 THEN 1 ELSE 1 + Digits(Quot(t, 10))

RECURSIVE RoundSig(_)
\* t rounded to Precision significant digits.
RoundSig(t) ==
    IF Digits(t) <= Precision THEN t
    ELSE 10 * RoundSig(Quot(t + (IF t < 0 THEN -5 ELSE 5), 10))

\* file << setprecision(10) << value: the text of a grid value.
Format(value) == RoundSig(value * (TextUnit \div Unit))

\* iss >> value: the Scalar nearest to the number the text gives.
Parse(text) ==
    Quot(2 * text + (IF text < 0 THEN -(TextUnit \div Unit) ELSE TextUnit \div Unit),
         2 * (TextUnit \div Unit))

\* ------------------------------------------------------------------ readGrid

\* A stream over grid file f: `pos` lines were read; eofbit and failbit.
OpenGridFile(f) == [pos |-> 0, eof |-> FALSE, fail |-> ~f.exists]

\* file.good().
Good(stream) == ~stream.eof /\ ~stream.fail

\* getline(file, line): a failed stream reads nothing; at the end of the
\* file nothing is read and failbit is set; reading a last line that has no
\* newline sets eofbit. `got` tells whether a line was read.
GetLine(f, stream) ==
    IF stream.fail THEN [stream |-> stream, got |-> FALSE]
    ELSE IF stream.eof \/ stream.pos >= Len(f.header) + Len(f.data)
         THEN [stream |-> [stream EXCEPT !.eof = TRUE, !.fail = TRUE], got |-> FALSE]
         ELSE [stream |-> [stream EXCEPT !.pos = @ + 1,
                                         !.eof = (stream.pos + 1 = Len(f.header) + Len(f.data))
                                                 /\ ~f.nl],
               got |-> TRUE]

\* A readGrid that skips two lines.
SkipHeaderTwoLines(f) == GetLine(f, GetLine(f, OpenGridFile(f)).stream).stream

\* The three getline calls that skip the header.
SkipHeader(f) == GetLine(f, GetLine(f, GetLine(f, OpenGridFile(f)).stream).stream).stream

\* iss >> m_grid[grid_idx] for the line just read: the value of a data
\* line; on an empty line the extraction fails and stores zero (C++11) or
\* leaves the entry as it is (before C++11).
Extracted(f, line, old, cxx11) ==
    IF line.got /\ line.stream.pos > Len(f.header)
    THEN Parse(f.data[line.stream.pos - Len(f.header)].value)
    ELSE IF cxx11 THEN 0 ELSE old

RECURSIVE ReadLines(_, _, _, _, _)
\* The loop of readGrid from entry grid_idx (counted from 0) on.
ReadLines(f, stream, grid, grid_idx, cxx11) ==
    IF ~(grid_idx < Len(grid)) THEN [grid |-> grid, err |-> NoError]
    ELSE IF ~Good(stream) THEN [grid |-> grid, err |-> FatalError]
    ELSE LET line == GetLine(f, stream)
         IN  ReadLines(f, line.stream,
                       [grid EXCEPT ![grid_idx + 1] = Extracted(f, line, @, cxx11)],
                       grid_idx + 1, cxx11)

\* readGrid in grid mode: the grid read and the error raised.
ReadGrid(f, grid, cxx11) == ReadLines(f, SkipHeader(f), grid, 0, cxx11)

\* ------------------------------------------------------------------ dumpGrid

\* A line of the header: its key and the numbers that follow it.
HeaderLine(key, nums) == [key |-> key, nums |-> nums]

\* A header without the line of the column names.
DumpHeaderWithoutColumns(lengths) ==
    << HeaderLine("#n_cv:", <<Len(lengths)>>), HeaderLine("#dim:", lengths) >>

\* The header dumpGrid writes: the number of CVs, the length of every axis
\* and the column names grid_value, cv0, cv1, ...
DumpHeader(lengths) ==
    << HeaderLine("#n_cv:", <<Len(lengths)>>),
       HeaderLine("#dim:", lengths),
       HeaderLine("grid_value", [i \in 1 .. Len(lengths) |-> i - 1]) >>

\* The line of grid entry grid_idx (counted from 0): its value, then per CV
\* the value of the CV at the grid point.
DumpRow(variables, lengths, grid, grid_idx) ==
    [value |-> Format(grid[grid_idx + 1]),
     cvs |-> [cv_idx \in 1 .. Len(variables) |->
                variables[cv_idx].m_cv_min
                  + GetCoordinates(lengths, grid_idx)[cv_idx] * Delta(variables[cv_idx])]]

\* The file dumpGrid writes; every line ends with std::endl.
DumpedFile(variables, lengths, grid) ==
    [exists |-> TRUE,
     header |-> DumpHeader(lengths),
     data |-> [k \in 1 .. NumElements(lengths) |-> DumpRow(variables, lengths, grid, k - 1)],
     nl |-> TRUE]

\* The grid files of an earlier run, of one CV on [0,2] with three points:
\* its dump, the dump short of its last line, and the dump short of its
\* last line and of the newline before it.
EarlierDump ==
    DumpedFile(<<CollectiveVariableItem(CVNames[1], Binding(0, 2, 3, 1))>>, <<3>>,
               <<Unit, 2 * Unit, Unit>>)
ProvidedGridFiles ==
    { EarlierDump,
      [EarlierDump EXCEPT !.data = SubSeq(@, 1, 2)],
      [EarlierDump EXCEPT !.data = SubSeq(@, 1, 2), !.nl = FALSE] }

\* ---------------------------------------------------------------- the calls

\* A check of the bounds that lets min = max pass.
InvalidStrict(v) == (v.m_cv_min > v.m_cv_max) \/ (v.m_num_points < 2)

\* A binding setGrid(true) refuses.
Invalid(v) == (v.m_cv_min >= v.m_cv_max) \/ (v.m_num_points < 2)

\* A call that makes no updateBiasPotential call and writes no header.
NoUpdate ==
    /\ adv' = NoAdvance /\ events' = <<>>
    /\ UNCHANGED <<timestep, evaluated, headers_written, deposits, index_call>>

\* registerCollectiveVariable(cv, sigma, cv_min, cv_max, num_points),
\* called before initialization (the registry is fixed once the engine is
\* initialized).
RegisterCollectiveVariable(cv, b) ==
    /\ ~m_is_initialized
    /\ m_variables' = Append(m_variables, CollectiveVariableItem(cv, b))
    /\ cv_bias' = Append(cv_bias, 0)
    /\ last' = Call("registerCollectiveVariable", NoError)
    /\ UNCHANGED << m_stride, m_num_update_steps, m_curr_bias_potential,
                    m_is_initialized, m_filename, m_overwrite, m_is_appending,
                    m_use_grid, m_add_hills, m_restart_filename, m_cv_values,
                    m_bias_potential, m_grid, m_grid_index, m_file, m_prepared,
                    disk_log, disk_grid >>
    /\ NoUpdate

\* removeAllVariables(), called before initialization.
RemoveAllVariables ==
    /\ ~m_is_initialized
    /\ m_variables' = <<>>
    /\ cv_bias' = <<>>
    /\ last' = Call("removeAllVariables", NoError)
    /\ UNCHANGED << m_stride, m_num_update_steps, m_curr_bias_potential,
                    m_is_initialized, m_filename, m_overwrite, m_is_appending,
                    m_use_grid, m_add_hills, m_restart_filename, m_cv_values,
                    m_bias_potential, m_grid, m_grid_index, m_file, m_prepared,
                    disk_log, disk_grid >>
    /\ NoUpdate

\* A setGrid that is never refused.
SetGridNeverRefused == FALSE

\* setGrid refuses to change the mode.
SetGridRefused == m_is_initialized

\* setGrid(use_grid).
SetGrid(use_grid) ==
    /\ IF SetGridRefused
       THEN /\ last' = Call("setGrid", ConfigError)
            /\ UNCHANGED engine
       ELSE /\ m_use_grid' = use_grid
            /\ last' = Call("setGrid",
                            IF use_grid /\ \E i \in 1 .. Len(m_variables) : Invalid(m_variables[i])
                            THEN ConfigError ELSE NoError)
            /\ UNCHANGED << m_variables, m_stride, m_num_update_steps,
                            m_curr_bias_potential, m_is_initialized, m_filename,
                            m_overwrite, m_is_appending, m_add_hills, m_restart_filename,
                            m_cv_values, m_bias_potential, m_grid, m_grid_index, m_file,
                            m_prepared, cv_bias, disk_log, disk_grid >>
    /\ NoUpdate

\* setAddHills(add_hills): a plain setter, which cannot fail and is not
\* recorded as the last call.
SetAddHills(add_hills) ==
    /\ m_add_hills' = add_hills
    /\ UNCHANGED << m_variables, m_stride, m_num_update_steps, m_curr_bias_potential,
                    m_is_initialized, m_filename, m_overwrite, m_is_appending, m_use_grid,
                    m_restart_filename, m_cv_values, m_bias_potential, m_grid,
                    m_grid_index, m_file, m_prepared, cv_bias, disk_log, disk_grid,
                    timestep, last, adv, events, evaluated, headers_written,
                    deposits, index_call >>

\* restartFromGridFile(filename).
RestartFromGridFile(filename) ==
    /\ m_restart_filename' = filename
    /\ last' = Call("restartFromGridFile", NoError)
    /\ UNCHANGED << m_variables, m_stride, m_num_update_steps, m_curr_bias_potential,
                    m_is_initialized, m_filename, m_overwrite, m_is_appending, m_use_grid,
                    m_add_hills, m_cv_values, m_bias_potential, m_grid, m_grid_index,
                    m_file, m_prepared, cv_bias, disk_log, disk_grid >>
    /\ NoUpdate

\* The user puts the grid file of an earlier run in place, to restart from.
ProvideGridFile(f) ==
    /\ disk_grid' = f
    /\ last' = Call("provide grid file", NoError)
    /\ UNCHANGED << m_variables, m_stride, m_num_update_steps, m_curr_bias_potential,
                    m_is_initialized, m_filename, m_overwrite, m_is_appending, m_use_grid,
                    m_add_hills, m_restart_filename, m_cv_values, m_bias_potential,
                    m_grid, m_grid_index, m_file, m_prepared, cv_bias, disk_log >>
    /\ NoUpdate

\* A dumpGrid and a readGrid that do not look at the mode.
GridOnlyNeverRefused == FALSE

\* dumpGrid and readGrid refuse to work outside grid mode.
GridOnlyRefused == ~m_use_grid

\* dumpGrid(GridName).  open_ok: the file can be opened for writing; what
\* is written to a stream that is not open is lost.  In grid mode the call
\* is made on an initialized engine: before, the grid and its index need
\* not fit the registry, and the loops would read out of range.
DumpGrid(open_ok) ==
    /\ m_use_grid => m_is_initialized
    /\ IF GridOnlyRefused
       THEN /\ last' = Call("dumpGrid", ConfigError)
            /\ UNCHANGED disk_grid
       ELSE /\ last' = Call("dumpGrid", NoError)
            /\ disk_grid' = IF open_ok THEN DumpedFile(m_variables, m_grid_index, m_grid)
                            ELSE disk_grid
    /\ UNCHANGED << m_variables, m_stride, m_num_update_steps, m_curr_bias_potential,
                    m_is_initialized, m_filename, m_overwrite, m_is_appending, m_use_grid,
                    m_add_hills, m_restart_filename, m_cv_values, m_bias_potential,
                    m_grid, m_grid_index, m_file, m_prepared, cv_bias, disk_log >>
    /\ NoUpdate

\* readGrid(GridName), called on its own; in grid mode on an initialized
\* engine, as dumpGrid.
ReadGridCall(cxx11) ==
    /\ m_use_grid => m_is_initialized
    /\ IF GridOnlyRefused
       THEN /\ last' = Call("readGrid", ConfigError)
            /\ UNCHANGED m_grid
       ELSE \E read \in {ReadGrid(disk_grid, m_grid, cxx11)} :
               /\ last' = Call("readGrid", read.err)
               /\ m_grid' = read.grid
    /\ UNCHANGED << m_variables, m_stride, m_num_update_steps, m_curr_bias_potential,
                    m_is_initialized, m_filename, m_overwrite, m_is_appending, m_use_grid,
                    m_add_hills, m_restart_filename, m_cv_values, m_bias_potential,
                    m_grid_index, m_file, m_prepared, cv_bias, disk_log, disk_grid >>
    /\ NoUpdate

\* ------------------------------------------------------------------- prepRun

\* An openOutputFile that appends to every log that exists.
AppendsToExisting(log, overwrite) == log.exists

\* openOutputFile appends to the log: it exists and is not overwritten.
Appends(log, overwrite) == log.exists /\ ~overwrite

\* The header row of the log: per CV its name and sigma column.
HeaderRow(variables) ==
    LogRow("header", 0, 0,
           [i \in 1 .. Len(variables) |-> <<variables[i].m_cv, variables[i].m_cv>>])

\* m_file.open(...): the stream afterwards.  "open": open and good; "bad":
\* not open, failbit set; "stuck": open, failbit set.  Opening a stream
\* that is open fails; a successful open clears an earlier failbit in a
\* C++11 library (cxx11) and leaves it set in an older one.
OpenStream(file, open_ok, cxx11) ==
    IF file = "open" THEN "stuck"
    ELSE IF file = "stuck" THEN "stuck"
    ELSE IF ~open_ok THEN "bad"
    ELSE IF file = "bad" /\ ~cxx11 THEN "stuck"
    ELSE "open"

\* m_file.open(...) has opened the file: the stream was not open before
\* and the file can be opened.
FileOpened(file, open_ok) == (file = "closed" /\ open_ok) \/ (file = "bad" /\ open_ok)

\* The log on disk as opening it leaves it: kept when appending, else empty.
CreatedLog(log, overwrite) ==
    IF Appends(log, overwrite) THEN log ELSE [exists |-> TRUE, rows |-> <<>>]

\* An openOutputFile that does not test the stream.
OpenNeverThrows(stream) == FALSE

\* openOutputFile throws: if (!m_file.good()).
OpenThrows(stream) == stream # "open"

\* The log on disk once openOutputFile has opened it and prepRun has
\* written the header of a new file.
OpenedLog(log, overwrite, variables) ==
    IF Appends(log, overwrite) THEN log
    ELSE [exists |-> TRUE, rows |-> <<HeaderRow(variables)>>]

\* m_grid.resize(n, 0.0): the entries kept, zeros added.
Resize(grid, n) == [g \in 1 .. n |-> IF g <= Len(grid) THEN grid[g] ELSE 0]

\* setupGrid: the lengths of the axes.
GridLengths(variables) == [i \in 1 .. Len(variables) |-> variables[i].m_num_points]

\* A prepRun that sets up the engine every time it is called.
FirstPrepRunAlways == TRUE

\* The first prepRun and every later one.
FirstPrepRun == ~m_is_initialized

\* prepRun(timestep).  open_ok: the log can be opened.  cxx11: the build's
\* library, with its rule for a failed extraction (see Extracted) and for
\* opening a stream that has failed (see OpenStream).  The assertions of
\* writeFileHeader and setupGrid (a CV is registered) are preconditions.
\* updateBiasPotential runs with m_is_initialized set, so that its test of
\* the flag before it writes a hill row always passes.
PrepRun(open_ok, cxx11, current_val) ==
    \E opens \in { FirstPrepRun /\ m_filename # "" } :
    \E stream \in { IF opens THEN OpenStream(m_file, open_ok, cxx11) ELSE m_file } :
    \E grids \in { FirstPrepRun /\ m_use_grid } :
    \E restarts \in { grids /\ m_restart_filename # "" } :
    \E grid_index \in { IF grids THEN GridLengths(m_variables) ELSE m_grid_index } :
    \E read \in
         { IF restarts
           THEN ReadGrid(disk_grid, Resize(m_grid, NumElements(grid_index)), cxx11)
           ELSE [grid |-> IF grids THEN Resize(m_grid, NumElements(grid_index)) ELSE m_grid,
                 err |-> NoError] } :
    \E e \in
         { [is_initialized |-> TRUE,
            cv_values |-> IF FirstPrepRun THEN [i \in 1 .. Len(m_variables) |-> <<>>]
                          ELSE m_cv_values,
            num_update_steps |-> IF FirstPrepRun THEN 0 ELSE m_num_update_steps,
            bias_potential |-> IF FirstPrepRun THEN <<>> ELSE m_bias_potential,
            grid |-> read.grid,
            grid_index |-> grid_index,
            file |-> stream,
            log |-> IF opens /\ stream = "open"
                    THEN OpenedLog(disk_log, m_overwrite, m_variables)
                    ELSE disk_log] } :
    \E header \in { opens /\ stream = "open" /\ ~Appends(disk_log, m_overwrite) } :
        /\ Len(evaluated) < MaxSteps
        /\ (opens /\ ~Appends(disk_log, m_overwrite)) => ~HasNoVariables(m_variables)
        /\ grids => ~HasNoVariables(m_variables)
        /\ IF opens /\ OpenThrows(stream)
           THEN \* openOutputFile throws
                /\ m_is_appending' = Appends(disk_log, m_overwrite)
                /\ m_file' = stream
                /\ disk_log' = IF FileOpened(m_file, open_ok)
                               THEN CreatedLog(disk_log, m_overwrite)
                               ELSE disk_log
                /\ last' = Call("prepRun", FatalError)
                /\ adv' = NoAdvance
                /\ UNCHANGED << headers_written, deposits >>
                /\ UNCHANGED << m_num_update_steps, m_curr_bias_potential,
                                m_is_initialized, m_restart_filename, m_cv_values,
                                m_bias_potential, m_grid, m_grid_index, m_prepared,
                                cv_bias, evaluated >>
           ELSE /\ m_is_appending' = IF opens THEN Appends(disk_log, m_overwrite)
                                     ELSE m_is_appending
                /\ m_file' = e.file
                /\ m_grid_index' = e.grid_index
                /\ last' = Call("prepRun", read.err)
                /\ headers_written' = headers_written + (IF header THEN 1 ELSE 0)
                /\ IF read.err # NoError
                   THEN \* readGrid throws
                        /\ m_cv_values' = e.cv_values
                        /\ m_num_update_steps' = e.num_update_steps
                        /\ m_bias_potential' = e.bias_potential
                        /\ m_grid' = e.grid
                        /\ disk_log' = e.log
                        /\ adv' = NoAdvance
                        /\ UNCHANGED deposits
                        /\ UNCHANGED << m_curr_bias_potential, m_is_initialized,
                                        m_restart_filename, m_prepared, cv_bias,
                                        evaluated >>
                   ELSE /\ m_restart_filename' = IF restarts THEN "" ELSE m_restart_filename
                        /\ m_is_initialized' = TRUE
                        /\ UpdateBiasPotential(e, timestep, current_val)
                        /\ evaluated' = Append(evaluated, Evaluation("prepRun", timestep))
                        /\ m_prepared' = TRUE
        /\ events' = <<>>
        /\ UNCHANGED << m_variables, m_stride, m_filename, m_overwrite, m_use_grid,
                        m_add_hills, disk_grid, timestep, index_call >>

\* -------------------------------------------------------------------- update

\* A step of update(timestep): what is done, for which timestep, and the
\* bias factors the CVs hold when it is done.
Event(what, t, bias) == [what |-> what, timestep |-> t, bias |-> bias]

\* An update that computes the net force before it updates the bias.
UpdateEventsForceFirst(t, before, after) ==
    << Event("integrateStepOne", t, before),
       Event("computeNetForce", t + 1, before),
       Event("updateBiasPotential", t + 1, after),
       Event("integrateStepTwo", t, after) >>

\* The steps of update(t) in order, `before` and `after` the bias factors
\* before and after updateBiasPotential(t + 1).
UpdateEvents(t, before, after) ==
    << Event("integrateStepOne", t, before),
       Event("updateBiasPotential", t + 1, after),
       Event("computeNetForce", t + 1, after),
       Event("integrateStepTwo", t, after) >>

\* update(timestep); the driver then moves to the next timestep.
Update(current_val) ==
    /\ m_prepared
    /\ Len(evaluated) < MaxSteps
    /\ UpdateBiasPotential(Fields, timestep + 1, current_val)
    /\ events' = UpdateEvents(timestep, cv_bias, cv_bias')
    /\ evaluated' = Append(evaluated, Evaluation("update", timestep + 1))
    /\ timestep' = timestep + 1
    /\ last' = Call("update", NoError)
    /\ UNCHANGED << m_variables, m_stride, m_is_initialized, m_filename, m_overwrite,
                    m_is_appending, m_use_grid, m_add_hills, m_restart_filename,
                    m_grid_index, m_file, m_prepared, disk_grid, headers_written,
                    index_call >>

\* The values the CVs report on an advance: a vector when CVs are
\* registered.
Reported ==
    IF HasNoVariables(m_variables) THEN {<<>>}
    ELSE CurrentValues(Len(m_variables), m_use_grid)

\* A run without a restart: every call but restartFromGridFile; no grid
\* file is read, so that the library's way of extracting makes no difference.
Next ==
    \/ \E b \in Bindings(Len(m_variables)) :
          /\ Len(m_variables) < Len(CVNames)
          /\ RegisterCollectiveVariable(CVNames[Len(m_variables) + 1], b)
    \/ RemoveAllVariables
    \/ \E b \in BOOLEAN : SetGrid(b)
    \/ \E b \in BOOLEAN : SetAddHills(b)
    \/ \E open_ok \in BOOLEAN, x \in Reported : PrepRun(open_ok, TRUE, x)
    \/ \E x \in Reported : Update(x)

Spec == Init /\ [][Next]_vars

\* A run with grid files: the grid is dumped and read, and the engine is
\* restarted from the grid file of an earlier run; the restart is asked for
\* and that file put in place before the engine is initialized; after a
\* prepRun that failed the engine may be put in history mode.  These runs keep no
\* hill log and make MaxGridSteps advances.
NextRestart ==
    \/ \E b \in Bindings(Len(m_variables)) :
          /\ Len(m_variables) < Len(CVNames)
          /\ RegisterCollectiveVariable(CVNames[Len(m_variables) + 1], b)
    \/ \E f \in {"", GridName} : ~m_is_initialized /\ RestartFromGridFile(f)
    \/ last = Call("prepRun", FatalError) /\ SetGrid(FALSE)
    \/ \E f \in ProvidedGridFiles :
          ~m_is_initialized /\ m_restart_filename # "" /\ ProvideGridFile(f)
    \/ \E cxx11 \in BOOLEAN, x \in Reported :
          m_filename = "" /\ Len(evaluated) < MaxGridSteps /\ PrepRun(TRUE, cxx11, x)
    \/ \E x \in Reported : Len(evaluated) < MaxGridSteps /\ Update(x)
    \/ \E cxx11 \in BOOLEAN : ReadGridCall(cxx11)
    \/ \E open_ok \in BOOLEAN : DumpGrid(open_ok)

SpecRestart == Init /\ [][NextRestart]_vars

\* The engine constructed with either overwrite, on a disk with or without
\* the hill log of an earlier run.
InitLog ==
    /\ \E overwrite \in BOOLEAN, log \in {NoLog, EarlierLog} : Constructed(overwrite, log)
    /\ index_call = NoIndexCall

\* The runs of an engine that writes a hill log: the log may fail to open,
\* with either library, and a restart may be asked for from a grid file
\* that is not there or is short, in which case readGrid fails after the
\* log is opened, or from the dump of an earlier run.
NextLog ==
    \/ \E b \in Bindings(Len(m_variables)) :
          /\ Len(m_variables) < Len(CVNames)
          /\ RegisterCollectiveVariable(CVNames[Len(m_variables) + 1], b)
    \/ ~m_is_initialized /\ m_restart_filename = "" /\ RestartFromGridFile(GridName)
    \/ \E f \in ProvidedGridFiles :
          ~m_is_initialized /\ m_restart_filename # "" /\ ~disk_grid.exists
            /\ ProvideGridFile(f)
    \/ \E open_ok \in BOOLEAN, cxx11 \in BOOLEAN, x \in Reported :
          m_filename # "" /\ Len(evaluated) < MaxGridSteps /\ PrepRun(open_ok, cxx11, x)
    \/ \E x \in Reported : Len(evaluated) < MaxGridSteps /\ Update(x)

SpecLog == InitLog /\ [][NextLog]_vars

\* The tuples of axis lengths of an index: up to MaxDimension axes of up
\* to MaxLength points.
IndexLengths ==
    UNION { [1 .. D -> 1 .. MaxLength] : D \in 1 .. MaxDimension }

\* The coordinate tuples of an index: 0 <= coords[i] < L_i.
IndexCoordinates(lengths) ==
    { c \in [1 .. Len(lengths) -> 0 .. MaxLength - 1] :
        \A i \in 1 .. Len(lengths) : c[i] < lengths[i] }

\* The fields of the engine and the records of its calls stay as they are
\* while the index is called on its own.
IndexOnly ==
    UNCHANGED << m_variables, m_stride, m_num_update_steps, m_curr_bias_potential,
                 m_is_initialized, m_filename, m_overwrite, m_is_appending, m_use_grid,
                 m_add_hills, m_restart_filename, m_cv_values, m_bias_potential, m_grid,
                 m_grid_index, m_file, m_prepared, cv_bias, disk_log, disk_grid,
                 timestep, last, adv, events, evaluated, headers_written, deposits >>

\* m_grid_index.getCoordinates(grid_idx, coords), as the loops of the
\* deposit and of dumpGrid call it for every grid_idx below getNumElements().
GetCoordinatesCall(grid_idx) ==
    /\ index_call' = IndexCall(index_call.lengths, "getCoordinates", grid_idx,
                               GetCoordinates(index_call.lengths, grid_idx))
    /\ IndexOnly

\* m_grid_index.getIndex(coords), as the interpolation calls it for the
\* corners of a block.
GetIndexCall(coords) ==
    /\ index_call' = IndexCall(index_call.lengths, "getIndex", coords,
                               GetIndex(index_call.lengths, coords))
    /\ IndexOnly

\* getIndex of the coordinates the last getCoordinates call returned:
\* recorded with the offset that call was given.
GetIndexOfResult ==
    /\ index_call.op = "getCoordinates"
    /\ index_call' = IndexCall(index_call.lengths, "getIndex of getCoordinates",
                               index_call.arg,
                               GetIndex(index_call.lengths, index_call.result))
    /\ IndexOnly

\* getCoordinates of the offset the last getIndex call returned: recorded
\* with the coordinates that call was given.
GetCoordinatesOfResult ==
    /\ index_call.op = "getIndex"
    /\ index_call' = IndexCall(index_call.lengths, "getCoordinates of getIndex",
                               index_call.arg,
                               GetCoordinates(index_call.lengths, index_call.result))
    /\ IndexOnly

\* A grid-mode engine as constructed, and an index set up with any of the
\* tuples of lengths, not yet called.
InitIndex ==
    /\ Constructed(FALSE, NoLog)
    /\ m_use_grid /\ m_add_hills /\ m_stride = 1 /\ m_filename = ""
    /\ index_call \in { IndexCall(lengths, "none", 0, 0) : lengths \in IndexLengths }

\* The calls of the index on its own.
NextIndex ==
    \/ \E grid_idx \in 0 .. NumElements(index_call.lengths) - 1 :
          GetCoordinatesCall(grid_idx)
    \/ \E coords \in IndexCoordinates(index_call.lengths) : GetIndexCall(coords)
    \/ GetIndexOfResult
    \/ GetCoordinatesOfResult

SpecIndex == InitIndex /\ [][NextIndex]_vars

\* The grids setGrid is asked to check: a grid it accepts, and grids with
\* min > max, with min = max and with a single point.
CheckedBindings ==
    { Binding(0, 2, 3, 1), Binding(2, 0, 3, 1), Binding(1, 1, 3, 1), Binding(0, 2, 1, 1) }

\* The set-up of an engine before its first run: CVs are registered and
\* removed and the mode is chosen, in any order.
NextSetUp ==
    \/ \E b \in CheckedBindings :
          /\ Len(m_variables) < Len(CVNames)
          /\ RegisterCollectiveVariable(CVNames[Len(m_variables) + 1], b)
    \/ RemoveAllVariables
    \/ \E b \in BOOLEAN : SetGrid(b)

SpecSetUp == Init /\ [][NextSetUp]_vars

\* ------------------------------------------------------------------- claims

\* The step is a call of prepRun or update that called updateBiasPotential.
Advances == Len(evaluated') = Len(evaluated) + 1

\* The step counter and the accumulators updateBiasPotential starts from:
\* the first prepRun resets them and sets up the grid.
StartSteps == IF m_is_initialized THEN m_num_update_steps ELSE 0
StartGrid ==
    IF m_is_initialized THEN m_grid
    ELSE IF m_use_grid
         THEN [g \in 1 .. Len(m_grid') |-> IF g <= Len(m_grid) THEN m_grid[g] ELSE 0]
         ELSE m_grid
StartPotentials == IF m_is_initialized THEN m_bias_potential ELSE <<>>

\* A binding of a grid: min < max and at least two points.
ValidBinding(v) == (v.m_cv_min < v.m_cv_max) /\ (v.m_num_points >= 2)

\* C1: setGrid, with either argument, on an initialized engine raises a
\* configuration error and leaves m_use_grid and every other field of the
\* engine as it is.
C1_SetGridAfterInit ==
    [][(m_is_initialized /\ (\E b \in BOOLEAN : SetGrid(b)))
          => (last'.err = ConfigError /\ UNCHANGED engine)]_vars

\* C1's case: setGrid was refused on an engine that has deposited hills.
C1_Witness ==
    /\ last = Call("setGrid", ConfigError)
    /\ m_is_initialized
    /\ m_num_update_steps >= 2

\* C2: an advance with a CV registered grows the accumulator (grid mode:
\* no entry of the grid decreases and one increases; history mode:
\* m_bias_potential gains exactly one entry) if and only if deposition is
\* enabled and the step counter is a multiple of the stride when the
\* advance starts; every other advance leaves both as they are.
C2_GrowsIffDue ==
    [][(Advances /\ Len(m_variables) > 0)
          => IF m_add_hills /\ (StartSteps % m_stride = 0)
             THEN IF m_use_grid
                  THEN /\ \A g \in 1 .. Len(m_grid') : m_grid'[g] >= StartGrid[g]
                       /\ \E g \in 1 .. Len(m_grid') : m_grid'[g] > StartGrid[g]
                       /\ m_bias_potential' = StartPotentials
                  ELSE /\ Len(m_bias_potential') = Len(StartPotentials) + 1
                       /\ SubSeq(m_bias_potential', 1, Len(StartPotentials)) = StartPotentials
                       /\ m_grid' = StartGrid
             ELSE /\ m_grid' = StartGrid
                  /\ m_bias_potential' = StartPotentials]_vars

\* C2's case: three advances with stride 1, of which only one deposited,
\* the last one made with deposition disabled.
C2_Witness ==
    /\ adv.ran /\ ~adv.deposited
    /\ m_stride = 1
    /\ m_num_update_steps = 3
    /\ Len(m_bias_potential) = 1

\* C3, for run segments of at least one step and an engine with a CV: a
\* prepRun that follows an update does not evaluate the timestep that
\* update has evaluated, so that no timestep is evaluated twice and the
\* step counter advances by one per timestep.
C3_OncePerTimestep ==
    Len(m_variables) > 0 =>
        \A i \in 2 .. Len(evaluated) :
            (evaluated[i - 1].by = "update" /\ evaluated[i].by = "prepRun")
                => evaluated[i].timestep # evaluated[i - 1].timestep

\* C4: with no CV registered an advance changes nothing: not the bias
\* potential, the step counter, the histories, m_bias_potential or the
\* grid; it makes no setBiasFactor call and writes no hill row.
C4_NoVariablesNoOp ==
    [][(Advances /\ Len(m_variables) = 0)
          => /\ UNCHANGED << m_curr_bias_potential, m_num_update_steps, m_cv_values,
                             m_bias_potential, m_grid, cv_bias, disk_log >>
             /\ adv'.calls = <<>>
             /\ ~adv'.logged]_vars

\* C4's case: an update was made with no CV registered.
C4_Witness ==
    /\ last.op = "update"
    /\ adv.called /\ ~adv.ran
    /\ Len(m_variables) = 0
    /\ Len(evaluated) >= 2

\* The bias factors the setBiasFactor calls of an advance handed over.
Factors(calls) == [i \in 1 .. Len(calls) |-> calls[i][2]]

\* C5: an advance with a CV registered calls setBiasFactor once for every
\* registered CV, in the order of the registry, each with the derivative of
\* the bias potential along its own axis, and adds one to the step counter;
\* on deposition steps and others, in grid and history mode, in and out of
\* the domain of the grid.
C5_BiasFactorsThenStep ==
    [][(Advances /\ Len(m_variables) > 0)
          => /\ Len(adv'.calls) = Len(m_variables)
             /\ \A i \in 1 .. Len(m_variables) :
                   /\ adv'.calls[i][1] = m_variables[i].m_cv
                   /\ adv'.calls[i][2] =
                         IF m_use_grid
                         THEN GridDerivative(m_variables, GridLengths(m_variables),
                                             m_grid', adv'.current_val, i)
                         ELSE HistoryDerivative(m_variables, m_cv_values', StartPotentials,
                                                m_stride, adv'.current_val, i)
             /\ cv_bias' = Factors(adv'.calls)
             /\ m_num_update_steps' = StartSteps + 1]_vars

\* C5's case: two CVs on a grid that holds hills, the second one out of
\* the grid, were handed different bias factors.
C5_Witness ==
    /\ adv.ran /\ m_use_grid /\ ~adv.found
    /\ Len(adv.calls) = 2
    /\ adv.calls[1][2] # adv.calls[2][2]
    /\ m_num_update_steps = 2

\* C6: update(t) runs the first integration half-step, then the bias
\* update with timestep t+1, then the net force computation at t+1, then
\* the second half-step; the net force computation sees the bias factors
\* the bias update of this step has handed over.
C6_UpdateOrder ==
    events # <<>>
        => /\ [e \in 1 .. Len(events) |-> events[e].what]
                = <<"integrateStepOne", "updateBiasPotential", "computeNetForce",
                    "integrateStepTwo">>
           /\ [e \in 1 .. Len(events) |-> events[e].timestep]
                = <<timestep - 1, timestep, timestep, timestep - 1>>
           /\ adv.called /\ adv.timestep = events[2].timestep
           /\ events[3].bias = cv_bias
           /\ adv.ran => events[3].bias = Factors(adv.calls)

\* C6's case: an update whose bias update changed the bias factors.
C6_Witness ==
    /\ last.op = "update"
    /\ adv.ran
    /\ Len(events) = 4
    /\ events[1].bias # events[3].bias

\* C7: in history mode every advance appends the value of every CV to its
\* history, whether or not a hill is deposited, so that every history is
\* as long as the step counter; in grid mode no history ever gets an entry.
C7_HistoryLengths ==
    m_is_initialized
        => /\ Len(m_cv_values) = Len(m_variables)
           /\ \A i \in 1 .. Len(m_cv_values) :
                 /\ Len(m_cv_values[i]) = (IF m_use_grid THEN 0 ELSE m_num_update_steps)
                 /\ (adv.ran /\ ~m_use_grid)
                       => m_cv_values[i][Len(m_cv_values[i])] = adv.current_val[i]

\* C7's case: history mode, two CVs, three advances with stride 2 of which
\* at most one deposited a hill.
C7_Witness ==
    /\ m_is_initialized /\ ~m_use_grid
    /\ Len(m_variables) = 2
    /\ m_stride = 2
    /\ m_num_update_steps = 3
    /\ Len(m_bias_potential) <= 1

\* x lies outside the closed interval [min, max] of axis v.
Outside(v, x) == (x < v.m_cv_min) \/ (x > v.m_cv_max)

\* C8: in grid mode, with a CV value outside the range of the grid, the
\* evaluation finds no block and the bias potential of the advance is zero;
\* no error is raised and the advance completes: the bias factors are
\* handed over and the step counter goes up by one.
C8_OutOfRangeIsZero ==
    [][(/\ Advances /\ m_use_grid /\ Len(m_variables) > 0
        /\ \E i \in 1 .. Len(m_variables) : Outside(m_variables[i], adv'.current_val[i]))
          => /\ ~adv'.found
             /\ m_curr_bias_potential' = 0
             /\ last'.err = NoError
             /\ Len(adv'.calls) = Len(m_variables)
             /\ cv_bias' = Factors(adv'.calls)
             /\ m_num_update_steps' = StartSteps + 1]_vars

\* C8's case: a grid that held hills before the advance was evaluated out
\* of its range, and the bias potential is zero.
C8_Witness ==
    /\ adv.ran /\ m_use_grid /\ ~adv.deposited
    /\ \A i \in 1 .. Len(m_variables) : ValidBinding(m_variables[i])
    /\ \E i \in 1 .. Len(m_variables) : Outside(m_variables[i], adv.current_val[i])
    /\ \E g \in 1 .. Len(m_grid) : m_grid[g] > 0
    /\ m_curr_bias_potential = 0

\* C9: on a grid with min < max on every axis, the evaluation finds no
\* block exactly when some CV value lies outside the closed interval
\* [min, max] of its axis; min and max themselves are bracketed.
C9_FailsExactlyOutside ==
    (/\ adv.ran /\ m_use_grid
     /\ \A i \in 1 .. Len(m_variables) : ValidBinding(m_variables[i]))
        => (~adv.found
              <=> \E i \in 1 .. Len(m_variables) :
                     Outside(m_variables[i], adv.current_val[i]))

\* x is the interior grid point of axis v with coordinate c.
InteriorPoint(v, x, c) ==
    /\ 0 < c /\ c < v.m_num_points - 1
    /\ x = v.m_cv_min + c * Quot(v.m_cv_max - v.m_cv_min, v.m_num_points - 1)

\* The grid coordinates of the blocks the values x fall into.
Coordinates(x) ==
    [i \in 1 .. Len(m_variables) |->
        Quot((x[i] - m_variables[i].m_cv_min) * (m_variables[i].m_num_points - 1),
             m_variables[i].m_cv_max - m_variables[i].m_cv_min)]

RECURSIVE RowMajor(_, _, _)
\* The row-major offset of the first d coordinates.
RowMajor(lengths, coords, d) ==
    IF d = 0 THEN 0 ELSE RowMajor(lengths, coords, d - 1) * lengths[d] + coords[d]

\* C10: in grid mode, on a grid with min < max on every axis, when every
\* CV value is an interior grid point the bias potential of the advance is
\* exactly the grid value stored at the row-major index of that point, in
\* one and in two dimensions.
C10_ExactAtGridPoints ==
    [][(/\ Advances /\ m_use_grid /\ Len(m_variables) > 0
        /\ \A i \in 1 .. Len(m_variables) : ValidBinding(m_variables[i]))
          => \A c \in {Coordinates(adv'.current_val)} :
                (\A i \in 1 .. Len(m_variables) :
                    InteriorPoint(m_variables[i], adv'.current_val[i], c[i]))
                  => /\ adv'.found
                     /\ m_curr_bias_potential'
                          = StartGrid[RowMajor(GridLengths(m_variables), c,
                                               Len(m_variables)) + 1]]_vars

\* C10's case: two CVs at an interior point of a grid that held hills
\* before the advance, and the bias potential is not zero.
C10_Witness ==
    /\ adv.ran /\ m_use_grid /\ ~adv.deposited
    /\ Len(m_variables) = 2
    /\ \A i \in 1 .. 2 :
          ValidBinding(m_variables[i]) /\ InteriorPoint(m_variables[i], adv.current_val[i], 1)
    /\ m_curr_bias_potential > 0

\* The bias potential of the grid the advance leaves, evaluated at val.
Evaluated(val) ==
    InterpolateBiasPotential(m_variables, GridLengths(m_variables), m_grid', val).value

\* The values x with the one of axis i shifted by d.
Shifted(x, i, d) == [k \in 1 .. Len(x) |-> IF k = i THEN x[k] + d ELSE x[k]]

\* The spacing of the grid along axis i.
Spacing(i) ==
    Quot(m_variables[i].m_cv_max - m_variables[i].m_cv_min, m_variables[i].m_num_points - 1)

\* The difference scheme the policy picks for axis i at x: it looks at
\* x[i] and the bounds of axis i only.
Scheme(i, x) ==
    IF x[i] - Spacing(i) < m_variables[i].m_cv_min THEN "forward"
    ELSE IF x[i] + Spacing(i) > m_variables[i].m_cv_max THEN "backward"
    ELSE "central"

\* C11: in grid mode the bias factor of axis i is the forward difference
\* over delta_i when x_i - delta_i < min_i, otherwise the backward
\* difference over delta_i when x_i + delta_i > max_i, otherwise the
\* central difference over 2 * delta_i; the scheme of axis i is chosen from
\* x_i and the bounds of axis i alone.
C11_DifferencePolicy ==
    [][(Advances /\ m_use_grid /\ Len(m_variables) > 0)
          => \A i \in 1 .. Len(m_variables) :
                \A x \in {adv'.current_val} : \A d \in {Spacing(i)} :
                   adv'.calls[i][2] =
                      CASE Scheme(i, x) = "forward"
                             -> Quot(Evaluated(Shifted(x, i, d)) - Evaluated(x), d)
                        [] Scheme(i, x) = "backward"
                             -> Quot(Evaluated(x) - Evaluated(Shifted(x, i, -d)), d)
                        [] Scheme(i, x) = "central"
                             -> Quot(Evaluated(Shifted(x, i, d)) - Evaluated(Shifted(x, i, -d)),
                                     2 * d)]_vars

\* C11's case: two CVs on a grid with hills, the first next to its lower
\* bound and the second between its bounds, both with a bias factor that
\* is not zero.
C11_Witness ==
    /\ adv.ran /\ m_use_grid /\ adv.found
    /\ Len(m_variables) = 2
    /\ adv.current_val[1] - Spacing(1) < m_variables[1].m_cv_min
    /\ adv.current_val[2] - Spacing(2) >= m_variables[2].m_cv_min
    /\ adv.current_val[2] + Spacing(2) <= m_variables[2].m_cv_max
    /\ adv.calls[1][2] # 0 /\ adv.calls[2][2] # 0

\* C12: dumpGrid and readGrid on an engine that is not in grid mode raise
\* a configuration error and leave the grid file, the grid and every other
\* field of the engine as they are.
C12_GridOnlyCalls ==
    [][(/\ ~m_use_grid
        /\ (\E cxx11 \in BOOLEAN : ReadGridCall(cxx11))
              \/ (\E open_ok \in BOOLEAN : DumpGrid(open_ok)))
          => (last'.err = ConfigError /\ UNCHANGED engine)]_vars

\* C12's case: readGrid was refused on an initialized engine in history
\* mode that has deposited a hill, with a whole grid file on disk.
C12_Witness ==
    /\ last = Call("readGrid", ConfigError)
    /\ ~m_use_grid /\ m_is_initialized
    /\ Len(m_bias_potential) >= 1
    /\ disk_grid = EarlierDump

\* The step reads the grid file: readGrid is called on its own, or by the
\* first prepRun of an engine a restart was asked for.
ReadsGridFile ==
    \/ \E cxx11 \in BOOLEAN : ReadGridCall(cxx11)
    \/ /\ ~m_is_initialized /\ m_restart_filename # ""
       /\ \E cxx11 \in BOOLEAN, x \in Reported : PrepRun(TRUE, cxx11, x)

\* C13: in grid mode, reading a grid file that holds fewer data lines than
\* the grid has entries (an empty or missing file included) ends in a fatal
\* error.
C13_ShortFileIsFatal ==
    [][(/\ m_use_grid /\ ReadsGridFile
        /\ Len(disk_grid.data) < NumElements(GridLengths(m_variables)))
          => last'.err = FatalError]_vars

\* The fields of the engine in memory and the hill log, without the grid
\* file.
memory ==
    << m_variables, m_stride, m_num_update_steps, m_curr_bias_potential, m_is_initialized,
       m_filename, m_overwrite, m_is_appending, m_use_grid, m_add_hills,
       m_restart_filename, m_cv_values, m_bias_potential, m_grid, m_grid_index, m_file,
       m_prepared, cv_bias, disk_log >>

RECURSIVE MaxOf(_)
\* The largest entry of a sequence of naturals.
MaxOf(s) ==
    IF s = <<>> THEN 0
    ELSE IF Head(s) > MaxOf(Tail(s)) THEN Head(s) ELSE MaxOf(Tail(s))

\* The coordinate tuples of a grid with the given axis lengths.
CoordinateTuples(lengths) ==
    { c \in [1 .. Len(lengths) -> 0 .. MaxOf(lengths) - 1] :
        \A i \in 1 .. Len(lengths) : c[i] < lengths[i] }

\* C14: dumpGrid in grid mode, to a file that can be opened, writes the
\* three header lines (number of CVs, axis lengths, column names) and then
\* one line per grid entry in the order of the flat index: line k holds the
\* value of entry k and, per CV, min + c * delta for the coordinates c whose
\* row-major index is k; nothing but the grid file changes.
C14_DumpFormat ==
    [][(m_use_grid /\ DumpGrid(TRUE))
          => \A lengths \in {[i \in 1 .. Len(m_variables) |-> m_variables[i].m_num_points]} :
                /\ disk_grid'.exists /\ disk_grid'.nl
                /\ disk_grid'.header
                     = << [key |-> "#n_cv:", nums |-> <<Len(m_variables)>>],
                          [key |-> "#dim:", nums |-> lengths],
                          [key |-> "grid_value",
                           nums |-> [i \in 1 .. Len(m_variables) |-> i - 1]] >>
                /\ Len(disk_grid'.data) = Len(m_grid)
                /\ Len(disk_grid'.data) = Cardinality(CoordinateTuples(lengths))
                /\ \A c \in CoordinateTuples(lengths) :
                      \A k \in {RowMajor(lengths, c, Len(lengths))} :
                         /\ disk_grid'.data[k + 1].value = Format(m_grid[k + 1])
                         /\ disk_grid'.data[k + 1].cvs
                              = [i \in 1 .. Len(m_variables) |->
                                   m_variables[i].m_cv_min + c[i] * Spacing(i)]
                /\ UNCHANGED memory]_vars

\* C14's case: a grid of two CVs that holds hills was dumped.
C14_Witness ==
    /\ last = Call("dumpGrid", NoError)
    /\ m_use_grid /\ Len(m_variables) = 2
    /\ Len(disk_grid.data) = 9
    /\ disk_grid.data[2].cvs # disk_grid.data[4].cvs
    /\ \E k \in 1 .. 9 : disk_grid.data[k].value > 0

\* The grid file is a dump of a grid of this engine's CVs: the file
\* dumpGrid writes for the grid its lines give.
OwnDump ==
    /\ disk_grid.exists
    /\ Len(disk_grid.data) = NumElements(GridLengths(m_variables))
    /\ disk_grid = DumpedFile(m_variables, GridLengths(m_variables),
                              [k \in 1 .. Len(disk_grid.data) |->
                                 Parse(disk_grid.data[k].value)])

\* C15, as far as it holds: when a dump of a grid of this engine's CVs is
\* read, by readGrid or by the prepRun of a restart, and no hill is
\* deposited in the same call, the read succeeds, every grid entry is the
\* value its line gives and dumping the grid again gives the same file.
C15_ReadOfDump ==
    [][(m_use_grid /\ ReadsGridFile /\ OwnDump /\ ~adv'.deposited)
          => /\ last'.err = NoError
             /\ \A k \in 1 .. Len(m_grid') :
                   /\ m_grid'[k] = Parse(disk_grid.data[k].value)
                   /\ Format(m_grid'[k]) = disk_grid.data[k].value
             /\ DumpedFile(m_variables, m_grid_index', m_grid') = disk_grid]_vars

\* C15's case: an engine was restarted from the dump of an earlier run
\* with deposition switched off, and holds the grid of the dump.
C15_Witness ==
    /\ last = Call("prepRun", NoError)
    /\ adv.ran /\ ~adv.deposited
    /\ m_use_grid /\ Len(evaluated) = 1
    /\ disk_grid = EarlierDump
    /\ m_grid = <<Unit, 2 * Unit, Unit>>

\* C15 as stated: when a dump of a grid of this engine's CVs is read, by
\* readGrid or by the prepRun of a restart, dumping the grid again gives
\* the same file.
C15_RedumpIdentical ==
    [][(m_use_grid /\ ReadsGridFile /\ OwnDump)
          => /\ last'.err = NoError
             /\ DumpedFile(m_variables, m_grid_index', m_grid') = disk_grid]_vars

\* C16: setGrid(true) on an engine that is not initialized and has a CV
\* registered with min >= max or with fewer than two grid points raises a
\* configuration error.
C16_SetGridValidates ==
    [][(/\ ~m_is_initialized /\ SetGrid(TRUE)
        /\ \E i \in 1 .. Len(m_variables) :
              \/ m_variables[i].m_cv_min >= m_variables[i].m_cv_max
              \/ m_variables[i].m_num_points < 2)
          => last'.err = ConfigError]_vars

\* C16's case: setGrid was refused for an engine whose first CV has a
\* grid setGrid accepts and whose second has min = max.
C16_Witness ==
    /\ last = Call("setGrid", ConfigError)
    /\ ~m_is_initialized
    /\ Len(m_variables) = 2
    /\ m_variables[1].m_cv_min < m_variables[1].m_cv_max
    /\ m_variables[1].m_num_points >= 2
    /\ m_variables[2].m_cv_min = m_variables[2].m_cv_max

\* The hill rows of a log.
HillRows(log) == { k \in 1 .. Len(log.rows) : log.rows[k].kind = "hill" }

\* This step is an advance on which a logging engine deposits.
LoggedDeposition ==
    /\ Advances /\ Len(m_variables) > 0
    /\ m_filename # ""
    /\ m_add_hills /\ StartSteps % m_stride = 0

\* C17: the hill log gets one row on an advance that is a deposition step
\* of an engine with a log, and none on any other step; the row carries the
\* timestep of the advance, the scaled height W*exp(-V/T_shift) and, per CV
\* in registry order, the sampled value and sigma.
C17_HillRowPerDeposition ==
    [][IF LoggedDeposition
       THEN /\ Cardinality(HillRows(disk_log')) = Cardinality(HillRows(disk_log)) + 1
            /\ disk_log'.rows[Len(disk_log'.rows)] =
                  LogRow("hill", evaluated'[Len(evaluated')].timestep,
                         Mul(m_W, Exp(Quot((-m_curr_bias_potential') * Unit, m_T_shift))),
                         [i \in 1 .. Len(m_variables) |->
                            <<adv'.current_val[i], m_variables[i].m_sigma>>])
       ELSE HillRows(disk_log') = HillRows(disk_log)]_vars

\* C17's case: a log with the header and two hill rows, written by an
\* engine of stride 2 with two CVs on its first and third advance.
C17_Witness ==
    /\ m_stride = 2 /\ Len(m_variables) = 2 /\ Len(evaluated) = 3
    /\ Len(disk_log.rows) = 3
    /\ Cardinality(HillRows(disk_log)) = 2
    /\ disk_log.rows[3].timestep = evaluated[3].timestep

\* This step is a first prepRun of an engine with a log filename.
FirstOpen ==
    /\ ~m_is_initialized /\ m_filename # ""
    /\ \E open_ok \in BOOLEAN, cxx11 \in BOOLEAN, x \in Reported : PrepRun(open_ok, cxx11, x)

\* C18: a first prepRun with a log filename opens the log for appending if
\* and only if the file exists and overwrite is not requested; when the log
\* is opened, the header is written if and only if the log is not appended
\* to, a log appended to keeps its rows and a new one starts with the
\* header; no other step writes a header, and no engine writes two.
C18_AppendAndHeader ==
    /\ [][IF FirstOpen
          THEN /\ m_is_appending' = (disk_log.exists /\ ~m_overwrite)
               /\ headers_written' \in {headers_written, headers_written + 1}
               /\ headers_written' # headers_written
                     => (m_file' = "open" /\ ~(disk_log.exists /\ ~m_overwrite))
               /\ m_file' = "open" =>
                     IF disk_log.exists /\ ~m_overwrite
                     THEN /\ headers_written' = headers_written
                          /\ Len(disk_log'.rows) >= Len(disk_log.rows)
                          /\ SubSeq(disk_log'.rows, 1, Len(disk_log.rows)) = disk_log.rows
                     ELSE /\ headers_written' = headers_written + 1
                          /\ disk_log'.rows[1].kind = "header"
                          /\ \A k \in 2 .. Len(disk_log'.rows) :
                                disk_log'.rows[k].kind = "hill"
          ELSE headers_written' = headers_written]_vars
    /\ [](headers_written <= 1)

\* C18's case: the first prepRun has created the log and written its
\* header and then failed in readGrid; the prepRun made again has written
\* no second header.
C18_Witness ==
    /\ headers_written = 1
    /\ ~m_is_initialized
    /\ last = Call("prepRun", FatalError)
    /\ m_file = "stuck"
    /\ disk_log.rows = <<HeaderRow(m_variables)>>

\* C19: a first prepRun that cannot open the hill log fails with a fatal
\* error and leaves the engine uninitialized: the flag stays false, the
\* histories, the grid and its index are as before, the restart file is
\* still to be read, and no advance is made.
C19_OpenFailureIsFatal ==
    [][(FirstOpen /\ m_file' # "open")
          => /\ last' = Call("prepRun", FatalError)
             /\ ~m_is_initialized' /\ ~m_prepared'
             /\ UNCHANGED << m_cv_values, m_bias_potential, m_num_update_steps,
                             m_grid, m_grid_index, m_restart_filename,
                             m_curr_bias_potential, cv_bias, evaluated >>
             /\ adv' = NoAdvance]_vars

\* C19's case: prepRun has failed to open the log of a grid-mode engine
\* with a CV registered and a restart asked for.
C19_Witness ==
    /\ last = Call("prepRun", FatalError)
    /\ m_file = "bad"
    /\ m_filename # "" /\ m_use_grid /\ m_restart_filename # ""
    /\ Len(m_variables) > 0
    /\ ~m_is_initialized /\ m_grid = <<>> /\ m_grid_index = <<>> /\ evaluated = <<>>

\* C20: for every tuple of axis lengths, getIndex of a coordinate tuple is
\* its row-major offset and lies below the product of the lengths,
\* getCoordinates of an offset is a coordinate tuple of the index,
\* getIndex(getCoordinates(offset)) = offset and
\* getCoordinates(getIndex(coords)) = coords.
C20_IndexRoundTrip ==
    /\ index_call.op = "getIndex" =>
          /\ index_call.result =
                RowMajor(index_call.lengths, index_call.arg, Len(index_call.lengths))
          /\ index_call.result \in 0 .. ProdSeq(index_call.lengths) - 1
    /\ index_call.op = "getCoordinates" =>
          /\ index_call.result \in CoordinateTuples(index_call.lengths)
          /\ RowMajor(index_call.lengths, index_call.result, Len(index_call.lengths))
                = index_call.arg
    /\ index_call.op = "getIndex of getCoordinates" => index_call.result = index_call.arg
    /\ index_call.op = "getCoordinates of getIndex" => index_call.result = index_call.arg

\* C20's case: on an index of three axes of different lengths, the last
\* offset has gone through getCoordinates and getIndex.
C20_Witness ==
    /\ index_call.op = "getIndex of getCoordinates"
    /\ index_call.lengths = <<2, 3, 1>>
    /\ index_call.arg = 5

\* Every hill so far was deposited at the same point.
SamePoint == \A k \in 1 .. Len(deposits) : deposits[k].at = deposits[1].at

\* The hill rows of the log, in order.
LoggedHills == SelectSeq(disk_log.rows, LAMBDA row : row.kind = "hill")

\* What hill k added to the potential at the point of the hills: the
\* potential there before hill k + 1 less the one before hill k.
Raise(k) == deposits[k + 1].potential - deposits[k].potential

\* The potential before each hill strictly increases, every hill raises it
\* by at most W and by less than the hill before, and the heights logged
\* are at most W and strictly decrease.
Decays ==
    /\ \A k \in 1 .. Len(deposits) - 1 :
          /\ deposits[k + 1].potential > deposits[k].potential
          /\ Raise(k) <= m_W
          /\ k > 1 => Raise(k) < Raise(k - 1)
    /\ m_filename # "" =>
          /\ Len(LoggedHills) = Len(deposits)
          /\ \A k \in 1 .. Len(LoggedHills) :
                /\ LoggedHills[k].W <= m_W
                /\ k > 1 => LoggedHills[k].W < LoggedHills[k - 1].W

\* The point of the hills lies in a block of the grid on every axis.
InsideGrid ==
    \A i \in 1 .. Len(m_variables) :
       /\ ValidBinding(m_variables[i])
       /\ m_variables[i].m_cv_min <= deposits[1].at[i]
       /\ deposits[1].at[i] < m_variables[i].m_cv_max

\* C21, as stated: when every hill is deposited at the same point, the
\* potential there before each deposition strictly increases and the
\* height of each hill is strictly smaller than that of the hill before
\* and never above W.
C21_DecayEverywhere == (deposits # <<>> /\ SamePoint) => Decays

\* C21, as far as it holds: the same, in history mode at every point and in
\* grid mode at a point with min <= x < max on every axis.
C21_WellTemperedDecay ==
    (deposits # <<>> /\ SamePoint /\ (m_use_grid => InsideGrid)) => Decays

\* C21's case: three hills at one point inside the grid, in grid mode, all
\* three logged.
C21_Witness ==
    /\ Len(deposits) = 3 /\ SamePoint
    /\ m_use_grid /\ InsideGrid
    /\ Len(LoggedHills) = 3

\* C22: on a deposition step the bias factors handed to the CVs are the
\* derivatives of the accumulator as it was before the hill of that step
\* was deposited, in grid mode and in history mode.
C22_DerivativesBeforeDeposit ==
    [][(Advances /\ Len(m_variables) > 0 /\ adv'.deposited)
          => cv_bias' =
               [i \in 1 .. Len(m_variables) |->
                  IF m_use_grid
                  THEN GridDerivative(m_variables, GridLengths(m_variables), StartGrid,
                                      adv'.current_val, i)
                  ELSE HistoryDerivative(m_variables, m_cv_values', StartPotentials,
                                         m_stride, adv'.current_val, i)]]_vars

\* The point of grid entry g (counted from 1).
GridPoint(g) ==
    [i \in 1 .. Len(m_variables) |->
       m_variables[i].m_cv_min
         + GetCoordinates(GridLengths(m_variables), g - 1)[i] * Spacing(i)]

\* The height W*exp(-V/T_shift) of a hill deposited where the potential
\* is V.
Height(V) == Mul(m_W, Exp(Quot((-V) * Unit, m_T_shift)))

\* C23: on a deposition step the bias potential of the step is the
\* potential at the current point before the hill is deposited; the hill
\* is deposited with the height W*exp(-V/T_shift) for that potential V (in
\* grid mode every grid entry grows by that height times the Gaussian, in
\* history mode V is the entry recorded); and the hill row of the log
\* carries that height.
C23_LoggedHeightIsDeposited ==
    [][(Advances /\ Len(m_variables) > 0 /\ adv'.deposited)
          => /\ m_curr_bias_potential' =
                  (IF m_use_grid
                   THEN InterpolateBiasPotential(m_variables, GridLengths(m_variables),
                                                 StartGrid, adv'.current_val).value
                   ELSE HistoryPotential(m_variables, m_cv_values', StartPotentials,
                                         m_stride, adv'.current_val))
             /\ IF m_use_grid
                THEN /\ \A g \in 1 .. Len(m_grid') :
                          m_grid'[g] = StartGrid[g]
                             + Mul(Height(m_curr_bias_potential'),
                                   Gauss(m_variables, GridPoint(g), adv'.current_val))
                     /\ m_bias_potential' = <<>>
                ELSE m_bias_potential' = Append(StartPotentials, m_curr_bias_potential')
             /\ m_filename # ""
                  => disk_log'.rows[Len(disk_log'.rows)].W = Height(m_curr_bias_potential')]_vars

\* C23's case: a logged hill deposited in grid mode where the potential
\* was above zero, so that its height is below W.
C23_Witness ==
    /\ adv.deposited /\ adv.logged /\ m_use_grid
    /\ m_curr_bias_potential > 0
    /\ disk_log.rows[Len(disk_log.rows)].W < m_W
    /\ disk_log.rows[Len(disk_log.rows)].W = Height(m_curr_bias_potential)

\* This step is a prepRun.
PrepRuns ==
    \E open_ok \in BOOLEAN, cxx11 \in BOOLEAN, x \in Reported : PrepRun(open_ok, cxx11, x)

\* s is a prefix of t.
Prefix(s, t) == Len(s) <= Len(t) /\ SubSeq(t, 1, Len(s)) = s

\* C24: a prepRun on an initialized engine only makes its advance: the
\* step counter is not reset, the histories and the recorded potentials
\* keep their entries, the grid keeps its length and its values but for
\* the hill of the advance, the log is not opened again and gets no
\* header, and no grid file is read.  The restart filename is taken (a
\* restart grid is loaded) only by a first prepRun in grid mode, and an
\* initialized engine stays initialized, so that it is loaded at most once.
C24_OneShotInitialization ==
    /\ [][(m_is_initialized /\ last'.op = "prepRun" /\ PrepRuns)
            => /\ last' = Call("prepRun", NoError)
               /\ m_num_update_steps' >= m_num_update_steps
               /\ Len(m_cv_values') = Len(m_cv_values)
               /\ \A i \in 1 .. Len(m_cv_values) : Prefix(m_cv_values[i], m_cv_values'[i])
               /\ Prefix(m_bias_potential, m_bias_potential')
               /\ m_grid_index' = m_grid_index
               /\ m_grid' = (IF m_use_grid /\ adv'.deposited
                             THEN AddGaussian(m_variables, m_grid_index, m_grid,
                                              adv'.current_val, m_curr_bias_potential')
                             ELSE m_grid)
               /\ UNCHANGED << m_file, m_is_appending, headers_written,
                               m_restart_filename, disk_grid >>
               /\ Prefix(disk_log.rows, disk_log'.rows)
               /\ \A k \in Len(disk_log.rows) + 1 .. Len(disk_log'.rows) :
                     disk_log'.rows[k].kind = "hill"]_vars
    /\ [][(m_restart_filename' # m_restart_filename /\ last'.op = "prepRun" /\ PrepRuns)
            => (~m_is_initialized /\ m_use_grid /\ m_is_initialized')]_vars
    /\ [][(~m_use_grid /\ last'.op = "prepRun" /\ PrepRuns)
            => (m_grid' = <<>> /\ m_grid = <<>>)]_vars
    /\ [][m_is_initialized => m_is_initialized']_vars

\* C24's case: an engine that was restarted from a grid file and has
\* written the header of its log has made a second prepRun.
C24_Witness ==
    /\ last = Call("prepRun", NoError)
    /\ Len(evaluated) = 2 /\ evaluated[2].by = "prepRun"
    /\ m_num_update_steps = 2
    /\ m_use_grid /\ disk_grid.exists /\ m_restart_filename = ""
    /\ headers_written = 1 /\ m_file = "open"

\* C25: an engine initialized in grid mode holds a grid of exactly
\* product(numPoints_i) values, whatever advances, dumpGrid and readGrid
\* calls were made, and its histories and recorded potentials are empty; an
\* engine initialized in history mode holds no grid.
C25_GridLengthAndModes ==
    m_is_initialized
        => IF m_use_grid
           THEN /\ Len(m_grid) = ProdSeq([i \in 1 .. Len(m_variables) |->
                                            m_variables[i].m_num_points])
                /\ m_bias_potential = <<>>
                /\ \A i \in 1 .. Len(m_cv_values) : m_cv_values[i] = <<>>
           ELSE m_grid = <<>>

\* C26: a dumpGrid in grid mode whose file cannot be opened for writing
\* ends in a fatal error.
C26_DumpOpenFailureIsFatal ==
    [][(m_use_grid /\ DumpGrid(FALSE)) => last' = Call("dumpGrid", FatalError)]_vars

\* C27: in history mode the history entry the summation reads as the
\* centre of hill k (entry k * stride, counted from 0) is the value sampled
\* on the advance that deposited hill k, for every recorded hill and CV.
C27_HillCentres ==
    (m_is_initialized /\ ~m_use_grid)
        => /\ Len(deposits) = Len(m_bias_potential)
           /\ \A k \in 1 .. Len(m_bias_potential) : \A i \in 1 .. Len(m_variables) :
                 /\ (k - 1) * m_stride + 1 <= Len(m_cv_values[i])
                 /\ m_cv_values[i][(k - 1) * m_stride + 1] = deposits[k].at[i]

\* C28: in history mode every index the summation reads is in range: for
\* every recorded potential k (counted from 0) the step index k * stride
\* is below the length of every CV history, with either stride and under
\* every sequence of advances and setAddHills calls.
C28_HistoryIndicesInRange ==
    (m_is_initialized /\ ~m_use_grid)
        => \A i \in 1 .. Len(m_variables) : \A k \in 0 .. Len(m_bias_potential) - 1 :
              k * m_stride < Len(m_cv_values[i])

\* C28's case: with stride 2, the second recorded potential reads the
\* last entry of a history of three.
C28_Witness ==
    /\ m_is_initialized /\ ~m_use_grid /\ m_stride = 2
    /\ Len(m_variables) = 2
    /\ Len(m_bias_potential) = 2
    /\ \A i \in 1 .. Len(m_variables) : Len(m_cv_values[i]) = 3

\* The points at which the derivative along axis i is evaluated at x, by
\* the scheme the policy picks.
DifferencePoints(i, x) ==
    IF Scheme(i, x) = "forward" THEN {Shifted(x, i, Spacing(i)), x}
    ELSE IF Scheme(i, x) = "backward" THEN {Shifted(x, i, -Spacing(i)), x}
    ELSE {Shifted(x, i, -Spacing(i)), Shifted(x, i, Spacing(i))}

\* C29: in grid mode, on an advance whose point x has min <= x <= max on
\* every axis of a grid with min < max, every point at which the derivative
\* computation evaluates the grid is found inside the grid, so that no
\* difference takes the out-of-bounds zero for one of its two values.
C29_DifferencesInsideDomain ==
    [][(/\ Advances /\ m_use_grid /\ Len(m_variables) > 0
        /\ \A i \in 1 .. Len(m_variables) :
              /\ ValidBinding(m_variables[i])
              /\ m_variables[i].m_cv_min <= adv'.current_val[i]
              /\ adv'.current_val[i] <= m_variables[i].m_cv_max)
          => \A i \in 1 .. Len(m_variables) :
                \A p \in DifferencePoints(i, adv'.current_val) :
                   InterpolateBiasPotential(m_variables, GridLengths(m_variables),
                                            m_grid', p).found]_vars

\* C30: every engine initialized in grid mode has min < max and at least
\* two grid points for every registered CV, however grid mode was chosen
\* and in whatever order the CVs were registered and setGrid was called.
C30_InitializedGridIsValid ==
    (m_is_initialized /\ m_use_grid)
        => \A i \in 1 .. Len(m_variables) : ValidBinding(m_variables[i])

====
